---- MODULE Spec2Model ----
(***************************************************************************)
(* Model of src/rem.js: the dual-surface / dual-source blink handler       *)
(* `blink` (lines 196-280), the crossfade `playAudioWithCrossfade` (lines  *)
(* 123-158) and the asynchronous callbacks they register: the video        *)
(* element's onloadeddata handler, the teardown timer set with setTimeout, *)
(* and the end of a scheduled linear gain ramp.                            *)
(*                                                                         *)
(* The caller keeps the object returned by `blink` and passes its fields   *)
(* back in on the next call; the variables audioSource1, audioSource2,     *)
(* activeAudioIndex, activeVideoIndex and currentVideoIndex are that       *)
(* object.  JavaScript runs every handler to completion, so each handler   *)
(* is one atomic action.                                                   *)
(*                                                                         *)
(* The file also holds an older copy of its functions (lines 282-421, with *)
(* a five-parameter `blink`); the model follows the dual-channel `blink`   *)
(* of lines 196-280.                                                       *)
(***************************************************************************)
EXTENDS Integers, Sequences, FiniteSets

\* ---------------------------------------------------------------- bounds
MaxVideos == 2      \* largest catalog size numVideos explored
MaxUnits == 3       \* playback units (AudioBufferSourceNodes) created in a run
MaxDraws == 2       \* iterations of the selection loop followed in one call

\* ------------------------------------------------------------- constants
NULL == 0           \* a null audio source / absent handler
NoClip == -1        \* currentVideoIndex before the first call (no clip yet)

\* Math.random() takes the values k / RandRes, k in 0 .. RandRes-1: fine enough
\* for Math.floor(Math.random() * numVideos) to reach every index
RandRes == MaxVideos

Slots == {1, 2}
Other(i) == IF i = 1 THEN 2 ELSE 1
AudioActions == {"none", "start", "jump"}
RandomValues == 0 .. (RandRes - 1)

VARIABLES
  numVideos,          \* blink parameter numVideos (fixed for a session)
  videoPresent,       \* videoPresent[i]: getElementById("blinkVideo" + i) is non-null
  audioReady,         \* audioBuffer && audioContext && gainNode1 && gainNode2
  video,              \* the two <video> elements
  activeVideoIndex,   \* returned / passed-in activeVideoIndex
  currentVideoIndex,  \* returned / passed-in currentVideoIndex
  audioSource1,       \* returned / passed-in audioSource1 (unit id or NULL)
  audioSource2,       \* returned / passed-in audioSource2 (unit id or NULL)
  activeAudioIndex,   \* returned / passed-in activeAudioIndex
  units,              \* every AudioBufferSourceNode created so far, by id
  gain,               \* the two gain nodes: last applied value + scheduled ramps
  timers,             \* pending setTimeout teardown callbacks, in firing order
  selecting,          \* the handler is still inside the do-while selection loop
  seek,               \* a call of playAudioFrom / playAudioWithCrossfade: its
                      \* startTime, the buffer duration and the offset started at
  timeStats           \* a call of updateTimeStats: its arguments and its result

vars == <<numVideos, videoPresent, audioReady, video, activeVideoIndex,
          currentVideoIndex, audioSource1, audioSource2, activeAudioIndex,
          units, gain, timers, selecting, seek, timeStats>>

config == <<numVideos, videoPresent, audioReady>>
calls == <<seek, timeStats>>
videoVars == <<video, activeVideoIndex, currentVideoIndex>>
audioVars == <<audioSource1, audioSource2, activeAudioIndex, units, gain, timers>>

\* ------------------------------------------------------ clip file names
RECURSIVE Digits(_)
Digits(n) == IF n < 10 THEN <<n>> ELSE Append(Digits(n \div 10), n % 10)

RECURSIVE PadStart(_, _, _)
PadStart(s, len, c) == IF Len(s) >= len THEN s ELSE PadStart(<<c>> \o s, len, c)

\* "vid/" + String(i + 1).padStart(3, "0") + ".mp4"
Filename(i) == <<"vid/">> \o PadStart(Digits(i + 1), 3, 0) \o <<".mp4">>

NoSrc == <<>>

\* ------------------------------------------------------ clip selection
\* Math.floor(Math.random() * numVideos) for Math.random() = r / RandRes
RandomIndex(r, n) == (r * n) \div RandRes

\* mutants of the do-while condition: the catalog-size guard off by one, and
\* the guard left out
LoopAgainOffByOne(idx, cur, n) == idx = cur /\ n > 2

LoopAgainNoGuard(idx, cur, n) == idx = cur

\* the do-while condition: newVideoIndex === currentVideoIndex && numVideos > 1
LoopAgain(idx, cur, n) == idx = cur /\ n > 1

\* The selection loop run on the successive values of Math.random() in
\* `draws`: the index it ends with, the number of draws it made, and whether
\* it left the loop within those draws.
RECURSIVE PickNext(_, _, _)
PickNext(draws, cur, n) ==
  LET idx == RandomIndex(Head(draws), n) IN
  IF ~LoopAgain(idx, cur, n)
    THEN [index |-> idx, count |-> 1, done |-> TRUE]
    ELSE IF Len(draws) = 1
      THEN [index |-> idx, count |-> 1, done |-> FALSE]
      ELSE LET rest == PickNext(Tail(draws), cur, n) IN
           [rest EXCEPT !.count = @ + 1]

DrawSeqs == UNION {[1 .. k -> RandomValues] : k \in 1 .. MaxDraws}

\* ------------------------------------------------------------ gain nodes
\* A gain node's automation timeline, reduced to the value of the last event
\* whose time has come and the linear ramps still ahead, in end-time order.
\* setValueAtTime(v, now): an event at the current time, placed before every
\* ramp that ends later.
SetValueAtTime(node, v) == [node EXCEPT !.value = v]

\* linearRampToValueAtTime(v, now + crossfadeDuration): it ends after every
\* ramp scheduled earlier (all ramps have the same length).
LinearRampToValueAtTime(node, v, fade) ==
  [node EXCEPT !.events = Append(@, [fade |-> fade, value |-> v])]

FadeInProgress == gain[1].events # <<>> \/ gain[2].events # <<>>

\* ------------------------------------------------------- playback units
\* A started source with loop = true, connected to gain node g.  `by` is the
\* audio action that created the unit; `overlap` tells whether the teardown
\* timer set by the previous crossfade was still pending then.
NewUnit(g, action, overlapping) ==
  [gain |-> g, live |-> TRUE, loop |-> TRUE, by |-> action,
   overlap |-> overlapping]

\* Variant: stop() has no effect.
StopIgnored(us, u) == us

\* source.stop() on unit u (lines 150 and 96)
Stop(us, u) == [us EXCEPT ![u].live = FALSE]

LiveUnits == {u \in DOMAIN units : units[u].live}

\* the teardown timer set by the crossfade that created the latest unit has
\* not fired yet
PreviousTeardownPending ==
  \E i \in DOMAIN timers : timers[i].fade = Len(units)

ActiveSource == IF activeAudioIndex = 1 THEN audioSource1 ELSE audioSource2

\* --------------------------------------------------------------- Init
NoHandler == [show |-> NULL, hide |-> NULL]

\* The page before the first blink: the gain nodes as initializeGainNodes
\* leaves them (both at 0), no audio source, no clip, and the surface named
\* by activeVideoIndex on top of the other one.
\* No direct call of the playback functions or of updateTimeStats is
\* followed in the specifications of blink.
NoSeek == [fn |-> "none", startTime |-> 0, duration |-> 0, started |-> FALSE,
           offset |-> 0]
NoTimeStats == [lastTimestamp |-> 0, avgDelta |-> 0, timestamp |-> 0,
                returned |-> FALSE, result |-> [lastTimestamp |-> 0,
                                                avgDelta |-> 0]]

InitPage ==
  /\ numVideos \in 1 .. MaxVideos
  /\ videoPresent \in [Slots -> BOOLEAN]
  /\ audioReady \in BOOLEAN
  /\ activeVideoIndex = 1
  /\ video = [i \in Slots |->
                [src |-> NoSrc, loading |-> FALSE, playing |-> FALSE,
                 opacity |-> IF i = activeVideoIndex THEN "1" ELSE "0",
                 zIndex |-> IF i = activeVideoIndex THEN "2" ELSE "1",
                 onloadeddata |-> NoHandler]]
  /\ currentVideoIndex = NoClip
  /\ audioSource1 = NULL
  /\ audioSource2 = NULL
  /\ activeAudioIndex \in Slots
  /\ units = <<>>
  /\ gain = [i \in Slots |-> [value |-> 0, events |-> <<>>]]
  /\ timers = <<>>
  /\ selecting = FALSE

Init ==
  /\ InitPage
  /\ seek = NoSeek
  /\ timeStats = NoTimeStats

\* ------------------------------------------------- playAudioWithCrossfade
\* The state of the audio graph after playAudioWithCrossfade(audioContext,
\* audioBuffer, activeSource, activeGain, inactiveGain, randomTime): a new
\* looping unit on the inactive gain node, both ramps scheduled, and the
\* teardown of activeSource (captured by the timer's closure) scheduled when
\* activeSource is non-null.  The new unit's id also names the fade.
playAudioWithCrossfade(activeSource, activeGain, inactiveGain) ==
  LET newSource == Len(units) + 1
      g1 == [gain EXCEPT ![inactiveGain] = SetValueAtTime(@, 0)]
      g2 == [g1 EXCEPT ![activeGain] =
               LinearRampToValueAtTime(SetValueAtTime(@, 1), 0, newSource)]
      g3 == [g2 EXCEPT ![inactiveGain] =
               LinearRampToValueAtTime(SetValueAtTime(@, 0), 1, newSource)]
  IN [newSource |-> newSource,
      units |-> Append(units, NewUnit(inactiveGain, "jump", PreviousTeardownPending)),
      gain |-> g3,
      timers |-> IF activeSource # NULL
                   THEN Append(timers, [unit |-> activeSource, fade |-> newSource])
                   ELSE timers]

\* ------------------------------------------------------------------ blink
\* The video half of blink (lines 210-223): bind the inactive element to the
\* new file, load it, and register the onloadeddata handler that closes over
\* (inactiveVideo, activeVideo).  load() resets the element: it stops
\* playing and has no frame until loadeddata.
\* Variant: rebinding an element whose load is still pending aborts that
\* load and starts no new one.
LoadElementAbortsPending(element, filename, handler) ==
  [element EXCEPT !.src = filename,
                  !.loading = ~element.loading,
                  !.playing = FALSE,
                  !.onloadeddata = handler]

\* element.src = filename; element.load(); element.onloadeddata = handler
\* (lines 212-216): the element is rebound and reset, whatever it was doing,
\* and its single onloadeddata property is overwritten.
LoadElement(element, filename, handler) ==
  [element EXCEPT !.src = filename,
                  !.loading = TRUE,
                  !.playing = FALSE,
                  !.onloadeddata = handler]

BlinkVideo(newVideoIndex) ==
  LET inactiveIndex == Other(activeVideoIndex) IN
  IF videoPresent[inactiveIndex] /\ videoPresent[activeVideoIndex]
    THEN [video EXCEPT ![inactiveIndex] =
            LoadElement(@, Filename(newVideoIndex),
                        [show |-> inactiveIndex, hide |-> activeVideoIndex])]
    ELSE video

\* Variant: the start branch leaves the active audio index as passed in.
BlinkStartKeepsIndex ==
  LET source == Len(units) + 1 IN
  /\ units' = Append(units, NewUnit(1, "start", FALSE))
  /\ gain' = [gain EXCEPT ![1] = SetValueAtTime(@, 1),
                          ![2] = SetValueAtTime(@, 0)]
  /\ audioSource1' = source
  /\ audioSource2' = audioSource2
  /\ activeAudioIndex' = activeAudioIndex
  /\ timers' = timers

\* audioAction === 'start' (lines 231-245)
BlinkStart ==
  LET source == Len(units) + 1 IN
  /\ units' = Append(units, NewUnit(1, "start", FALSE))
  /\ gain' = [gain EXCEPT ![1] = SetValueAtTime(@, 1),
                          ![2] = SetValueAtTime(@, 0)]
  /\ audioSource1' = source
  /\ audioSource2' = audioSource2
  /\ activeAudioIndex' = 1
  /\ timers' = timers

\* audioAction === 'jump' (lines 246-269)
BlinkJump ==
  LET activeSource == IF activeAudioIndex = 1 THEN audioSource1 ELSE audioSource2
      activeGain == IF activeAudioIndex = 1 THEN 1 ELSE 2
      inactiveGain == IF activeAudioIndex = 1 THEN 2 ELSE 1
      inactiveAudioIndex == IF activeAudioIndex = 1 THEN 2 ELSE 1
      r == playAudioWithCrossfade(activeSource, activeGain, inactiveGain)
  IN /\ units' = r.units
     /\ gain' = r.gain
     /\ timers' = r.timers
     /\ audioSource1' = IF inactiveAudioIndex = 1 THEN r.newSource ELSE audioSource1
     /\ audioSource2' = IF inactiveAudioIndex = 1 THEN audioSource2 ELSE r.newSource
     /\ activeAudioIndex' = inactiveAudioIndex

\* Variant: the audio half is also skipped when a video element is missing.
BlinkAudioNeedsVideo(audioAction) ==
  IF ~(videoPresent[1] /\ videoPresent[2]) THEN UNCHANGED audioVars
  ELSE IF audioReady /\ audioAction = "start" THEN BlinkStart
  ELSE IF audioReady /\ audioAction = "jump" THEN BlinkJump
  ELSE UNCHANGED audioVars

\* Variant: the else branch is taken by every action other than 'start'.
BlinkAudioElseJumps(audioAction) ==
  IF audioReady /\ audioAction = "start" THEN BlinkStart
  ELSE IF audioReady THEN BlinkJump
  ELSE UNCHANGED audioVars

\* The audio half of blink (lines 225-271).
BlinkAudio(audioAction) ==
  IF audioReady /\ audioAction = "start" THEN BlinkStart
  ELSE IF audioReady /\ audioAction = "jump" THEN BlinkJump
  ELSE UNCHANGED audioVars

\* One call of blink that returns: the selection loop ends on the last value
\* of `draws`.  maxUnits caps the playback units created in a run.
BlinkCall(audioAction, draws, maxUnits) ==
  LET pick == PickNext(draws, currentVideoIndex, numVideos) IN
  /\ ~selecting
  /\ pick.done /\ pick.count = Len(draws)
  /\ (audioReady /\ audioAction # "none") => Len(units) < maxUnits
  /\ video' = BlinkVideo(pick.index)
  /\ BlinkAudio(audioAction)
  /\ activeVideoIndex' = Other(activeVideoIndex)
  /\ currentVideoIndex' = pick.index
  /\ UNCHANGED <<config, calls, selecting>>

Blink(audioAction, draws) == BlinkCall(audioAction, draws, MaxUnits)

\* A call of blink whose selection loop has not ended after MaxDraws draws:
\* the handler has not returned, and nothing else runs meanwhile.
BlinkSelecting(audioAction, draws) ==
  LET pick == PickNext(draws, currentVideoIndex, numVideos) IN
  /\ ~selecting
  /\ Len(draws) = MaxDraws
  /\ ~pick.done
  /\ selecting' = TRUE
  /\ UNCHANGED <<config, calls, videoVars, audioVars>>

\* -------------------------------------------------------------- callbacks
\* The loadeddata event of element s: its current load has its first frame,
\* and the element's onloadeddata handler (lines 216-222) runs.
\* Variant: the handler shows its surface and leaves the other one as it is.
OnLoadedDataShowOnly(v, h) ==
  IF h = NoHandler THEN v
  ELSE [i \in Slots |->
         IF i = h.show
           THEN [v[i] EXCEPT !.playing = TRUE, !.opacity = "1", !.zIndex = "2"]
         ELSE v[i]]

\* The body of the onloadeddata handler h (lines 217-221) run on the
\* elements v: play and show h.show, hide h.hide.
OnLoadedData(v, h) ==
  IF h = NoHandler THEN v
  ELSE [i \in Slots |->
         IF i = h.show
           THEN [v[i] EXCEPT !.playing = TRUE, !.opacity = "1", !.zIndex = "2"]
         ELSE IF i = h.hide
           THEN [v[i] EXCEPT !.opacity = "0", !.zIndex = "1"]
         ELSE v[i]]

LoadedData(s) ==
  /\ ~selecting
  /\ video[s].loading
  /\ video' = OnLoadedData([video EXCEPT ![s].loading = FALSE],
                           video[s].onloadeddata)
  /\ UNCHANGED <<config, calls, activeVideoIndex, currentVideoIndex, audioVars,
                 selecting>>

\* The end time of the oldest scheduled ramp is reached on both gain nodes
\* (one crossfade schedules a ramp on each, ending at the same time).
RampEnd ==
  /\ ~selecting
  /\ FadeInProgress
  /\ gain' = [i \in Slots |->
                IF gain[i].events = <<>> THEN gain[i]
                ELSE [value |-> Head(gain[i].events).value,
                      events |-> Tail(gain[i].events)]]
  /\ UNCHANGED <<config, calls, videoVars, audioSource1, audioSource2,
                 activeAudioIndex, units, timers, selecting>>

\* mutant: the callback reads the active slot when it runs instead of the
\* source captured when the crossfade was issued
TeardownTargetActive(timer) == ActiveSource

\* The unit the timer callback stops: the activeSource its closure captured
\* (line 150).
TeardownTarget(timer) == timer.unit

\* The oldest teardown timer fires (lines 148-154).  Its delay,
\* crossfadeDuration * 1000 + 100 ms, outlasts the ramp of its own crossfade;
\* timers of equal delay fire in the order they were set.  stop() on a unit
\* already stopped changes nothing, and what it may throw is caught.
Teardown ==
  /\ ~selecting
  /\ timers # <<>>
  /\ \A i \in Slots : \A j \in DOMAIN gain[i].events :
        gain[i].events[j].fade # Head(timers).fade
  /\ LET target == TeardownTarget(Head(timers)) IN
       units' = IF target \in DOMAIN units THEN Stop(units, target) ELSE units
  /\ timers' = Tail(timers)
  /\ UNCHANGED <<config, calls, videoVars, audioSource1, audioSource2,
                 activeAudioIndex, gain, selecting>>

Next ==
  \/ \E a \in AudioActions, d \in DrawSeqs : Blink(a, d)
  \/ \E a \in AudioActions, d \in DrawSeqs : BlinkSelecting(a, d)
  \/ \E s \in Slots : LoadedData(s)
  \/ RampEnd
  \/ Teardown

Spec == Init /\ [][Next]_vars

\* ------------------------------------------------- the audio pair, deeper
\* The same page with a single clip in the catalog (the selection loop then
\* makes one draw), followed one playback unit further than Spec.
DeepUnits == MaxUnits + 1

InitDeep ==
  /\ Init
  /\ numVideos = 1
  /\ audioReady
  /\ videoPresent = [i \in Slots |-> TRUE]

BlinkDeep(audioAction) ==
  \E r \in RandomValues : BlinkCall(audioAction, <<r>>, DeepUnits)

NextDeep ==
  \/ \E a \in AudioActions : BlinkDeep(a)
  \/ \E s \in Slots : LoadedData(s)
  \/ RampEnd
  \/ Teardown

SpecDeep == InitDeep /\ [][NextDeep]_vars

\* ------------------------------------------------- the start offset
\* Positions and durations are counted on a grid of equal time steps.
MaxPosition == 6
MaxDuration == 4
StartTimes == (0 - MaxPosition) .. MaxPosition
Durations == 1 .. MaxDuration

\* The JavaScript remainder a % b for b > 0: the result has the sign of the
\* dividend a (a negative multiple of b gives -0, which compares equal to 0).
JsRemainder(a, b) == IF a >= 0 THEN a % b ELSE 0 - ((0 - a) % b)

\* const offset = startTime % audioBuffer.duration (lines 106 and 125)
StartOffset(startTime, duration) == JsRemainder(startTime, duration)

\* The node a source is connected to when no gain node is in between
\* (audioContext.destination, line 103).
Destination == 0

SeekCalls == {"playAudioFrom", "playAudioWithCrossfade"}

\* A page with its audio loaded and nothing playing, about to call one of
\* the two playback functions with some start position.
InitSeek ==
  /\ InitPage
  /\ numVideos = 1
  /\ audioReady
  /\ videoPresent = [i \in Slots |-> TRUE]
  /\ activeAudioIndex = 1
  /\ seek \in [fn : SeekCalls, startTime : StartTimes, duration : Durations,
               started : {FALSE}, offset : {0}]
  /\ timeStats = NoTimeStats

\* playAudioFrom(audioContext, audioBuffer, startTime, currentSource) with
\* no current source (lines 94-110): a looping source is connected to the
\* destination and started at the offset.
CallPlayAudioFrom ==
  /\ seek.fn = "playAudioFrom" /\ ~seek.started
  /\ units' = Append(units, NewUnit(Destination, "playAudioFrom", FALSE))
  /\ seek' = [seek EXCEPT !.started = TRUE,
                          !.offset = StartOffset(seek.startTime, seek.duration)]
  /\ UNCHANGED <<config, videoVars, audioSource1, audioSource2,
                 activeAudioIndex, gain, timers, selecting, timeStats>>

\* playAudioWithCrossfade(..., startTime, activeSource = null, gainNode1,
\* gainNode2) (lines 123-158): the new source is started at the offset on
\* the inactive gain node and the two ramps are scheduled.
CallPlayAudioWithCrossfade ==
  /\ seek.fn = "playAudioWithCrossfade" /\ ~seek.started
  /\ LET r == playAudioWithCrossfade(NULL, 1, 2) IN
       /\ units' = r.units
       /\ gain' = r.gain
       /\ timers' = r.timers
  /\ seek' = [seek EXCEPT !.started = TRUE,
                          !.offset = StartOffset(seek.startTime, seek.duration)]
  /\ UNCHANGED <<config, videoVars, audioSource1, audioSource2,
                 activeAudioIndex, selecting, timeStats>>

NextSeek ==
  \/ CallPlayAudioFrom
  \/ CallPlayAudioWithCrossfade

SpecSeek == InitSeek /\ [][NextSeek]_vars

\* ------------------------------------------------- updateTimeStats
\* Timestamps and intervals are counted in tenths of a millisecond and the
\* arguments are whole milliseconds, so that the products by 0.9 and 0.1 are
\* exact.
Tenths == 10
MaxTime == 4
MaxAvg == 3
Timestamps == {Tenths * t : t \in 0 .. MaxTime}
AvgDeltas == {Tenths * a : a \in 0 .. MaxAvg}

\* The value of lastTimestamp that stands for "no prior sample" (line 168).
NoSample == 0

\* updateTimeStats(lastTimestamp, avgDelta, timestamp) (lines 167-177)
updateTimeStats(lastTimestamp, avgDelta, timestamp) ==
  LET last == IF lastTimestamp = NoSample THEN timestamp ELSE lastTimestamp
      delta == timestamp - last
  IN [lastTimestamp |-> timestamp,
      avgDelta |-> (avgDelta * 9 + delta * 1) \div 10]

InitTimeStats ==
  /\ InitPage
  /\ numVideos = 1
  /\ audioReady
  /\ videoPresent = [i \in Slots |-> TRUE]
  /\ activeAudioIndex = 1
  /\ seek = NoSeek
  /\ timeStats \in [lastTimestamp : Timestamps, avgDelta : AvgDeltas,
                    timestamp : Timestamps, returned : {FALSE},
                    result : {NoTimeStats.result}]

\* One call of updateTimeStats with the arguments drawn.
CallUpdateTimeStats ==
  /\ ~timeStats.returned
  /\ timeStats' = [timeStats EXCEPT
                     !.returned = TRUE,
                     !.result = updateTimeStats(timeStats.lastTimestamp,
                                                timeStats.avgDelta,
                                                timeStats.timestamp)]
  /\ UNCHANGED <<config, videoVars, audioVars, selecting, seek>>

NextTimeStats == CallUpdateTimeStats

SpecTimeStats == InitTimeStats /\ [][NextTimeStats]_vars

\* ================================================================ claims
BothSurfaces == videoPresent[1] /\ videoPresent[2]
VisibleSurfaces == {s \in Slots : video[s].opacity = "1"}
LoadPending == \E s \in Slots : video[s].loading

\* C1: when a jump is handled and a second jump is handled before the first
\* jump's teardown timer has fired, then once both teardown timers have fired
\* exactly one playback unit is live: the one the second jump created, and it
\* is in the active slot.  (The latest unit was created by a jump while the
\* previous crossfade's timer was pending; no timer is pending any more.)
C1_TwoJumpsLeaveOneLiveUnit ==
  LET n == Len(units) IN
  (n >= 2 /\ units[n].by = "jump" /\ units[n].overlap /\ timers = <<>>)
    => (LiveUnits = {n} /\ ActiveSource = n)

\* C2: a crossfade's teardown timer captures the unit that is in the active
\* slot when the crossfade is issued, and when the timer fires it stops that
\* unit and no other; the unit it stops is never the one in the active slot
\* at that moment, however many crossfades were issued in between.
C2_TeardownStopsCapturedUnit ==
  [][ /\ (Len(timers') = Len(timers) + 1)
         => (ActiveSource # NULL /\ timers'[Len(timers')].unit = ActiveSource)
      /\ (timers # <<>> /\ timers' = Tail(timers))
         => /\ Head(timers).unit # ActiveSource
            /\ \A u \in DOMAIN units :
                 units'[u].live = (units[u].live /\ u # Head(timers).unit)
    ]_vars

\* C2 witness: three units; the third was created by a crossfade issued
\* while the timer of the second crossfade (which captured unit 1) was
\* pending; that timer has fired and stopped unit 1, and the unit in the
\* active slot is live.
C2_Witness ==
  /\ Len(units) = 3
  /\ units[3].by = "jump" /\ units[3].overlap
  /\ ~units[1].live
  /\ ActiveSource = 3 /\ units[3].live

\* C3: once no load is pending, the visible surface is bound to the clip
\* recorded as currentVideoIndex (the clip of the last trigger), also when
\* the load-complete callbacks fired out of order.
C3_VisibleIsLastIssued ==
  (BothSurfaces /\ currentVideoIndex # NoClip /\ ~LoadPending)
    => \A s \in VisibleSurfaces : video[s].src = Filename(currentVideoIndex)

\* C4: the visible surface is never the one a trigger has rebound and is
\* loading: it keeps its clip until a load-complete callback replaces it.
C4_VisibleNeverReloaded ==
  \A s \in VisibleSurfaces : ~video[s].loading

\* C5: a trigger whose audio action is invalid for the current state (jump
\* when no unit was ever started, start when one was) changes nothing of the
\* audio state: no unit is created, no gain changes, and audioSource1,
\* audioSource2 and activeAudioIndex are returned as passed in.
InvalidAction(a) ==
  \/ a = "jump" /\ units = <<>>
  \/ a = "start" /\ units # <<>>

C5_InvalidActionRejected ==
  [][ \A a \in AudioActions :
        (InvalidAction(a) /\ \E d \in DrawSeqs : Blink(a, d))
          => UNCHANGED audioVars ]_vars

\* C6: with more than one clip in the catalog, the clip a trigger selects is
\* in [0, numVideos) and differs from the current clip, so no two
\* consecutive triggers select the same clip.  (Every call of blink, and
\* nothing else, flips activeVideoIndex.)
C6_PickDiffersFromCurrent ==
  [][ (numVideos > 1 /\ activeVideoIndex' # activeVideoIndex)
        => /\ currentVideoIndex' \in 0 .. (numVideos - 1)
           /\ currentVideoIndex' # currentVideoIndex ]_vars

\* C6 witness: more than one clip, and two triggers have bound both
\* surfaces, the second one selecting while a clip was current.
C6_Witness ==
  /\ numVideos > 1
  /\ video[1].src # NoSrc /\ video[2].src # NoSrc
  /\ video[1].src # video[2].src
  /\ currentVideoIndex \in 0 .. (numVideos - 1)

\* C7: with a single clip the selection makes one draw and returns clip 0,
\* whatever Math.random() yields and also when clip 0 is already current;
\* the handler is never left inside the selection loop.
C7_SingleClipSingleDraw ==
  numVideos = 1 =>
    /\ ~selecting
    /\ currentVideoIndex \in {NoClip, 0}
    /\ \A d \in DrawSeqs :
         PickNext(d, currentVideoIndex, numVideos)
           = [index |-> 0, count |-> 1, done |-> TRUE]

\* C7 witness: a single clip, and a trigger was handled while clip 0 was
\* already current (both surfaces are bound to clip 0).
C7_Witness ==
  /\ numVideos = 1
  /\ currentVideoIndex = 0
  /\ video[1].src = Filename(0) /\ video[2].src = Filename(0)

\* C8: after a start action (the latest unit was created by start), the new
\* unit is the only live one and sits in the active slot, and once no ramp
\* is pending the active gain is 1 and the inactive gain is 0.
C8_StartLeavesOnlyNewUnit ==
  LET n == Len(units) IN
  (n >= 1 /\ units[n].by = "start")
    => /\ LiveUnits = {n}
       /\ ActiveSource = n
       /\ ~FadeInProgress
            => (gain[activeAudioIndex].value = 1
                /\ gain[Other(activeAudioIndex)].value = 0)

\* C9: the surface reported as active (activeVideoIndex) is the visible
\* one, the surface whose load completed last.
C9_ActiveFlagIsVisibleSurface ==
  BothSurfaces => VisibleSurfaces = {activeVideoIndex}

\* C10: once a start or jump has created a unit, whenever no fade is in
\* progress the active slot's gain is 1, the other slot's gain is 0, and the
\* active slot holds the most recently created unit.
C10_SettledGains ==
  (units # <<>> /\ ~FadeInProgress)
    => /\ activeAudioIndex \in Slots
       /\ gain[activeAudioIndex].value = 1
       /\ gain[Other(activeAudioIndex)].value = 0
       /\ ActiveSource = Len(units)

\* A step in which a call of blink returns: no other step changes the
\* active surface flag, and blink always flips it (lines 199 and 277).
BlinkReturns == activeVideoIndex' # activeVideoIndex

\* C11: a trigger with audio action none leaves the audio state unchanged:
\* no playback unit is created or stopped, no gain is set or ramped, no
\* teardown timer is scheduled, and audioSource1, audioSource2 and
\* activeAudioIndex are returned as passed in; the video state is what
\* changes (the current clip is the pick, the inactive surface loads it).
C11_NoneLeavesAudioUnchanged ==
  [][ (BlinkReturns /\ \E d \in DrawSeqs : Blink("none", d))
        => /\ UNCHANGED audioVars
           /\ currentVideoIndex' \in 0 .. (numVideos - 1)
           /\ BothSurfaces => video'[Other(activeVideoIndex)].loading ]_vars

\* Audio is available and two triggers have been handled (both surfaces are
\* bound) but only one playback unit exists: one trigger had action none.
C11_Witness ==
  /\ audioReady /\ BothSurfaces
  /\ video[1].src # NoSrc /\ video[2].src # NoSrc
  /\ Len(units) = 1 /\ units[1].live
  /\ timers = <<>>

\* No audio unit in either slot and no current clip.
FreshEngine ==
  /\ audioSource1 = NULL /\ audioSource2 = NULL
  /\ currentVideoIndex = NoClip

\* C12: on a fresh engine whose audio resources are present, a trigger with
\* audio action start returns a state with exactly one playback unit, live,
\* looping, attached to gain node 1 and held in slot 1; slot 2 is still
\* empty, the active audio slot is 1 whatever it was before, and the current
\* clip id is in [0, numVideos).
C12_StartOnFreshEngine ==
  [][ (FreshEngine /\ audioReady /\ \E d \in DrawSeqs : Blink("start", d))
        => /\ Len(units') = 1
           /\ units'[1].live /\ units'[1].loop /\ units'[1].gain = 1
           /\ audioSource1' = 1 /\ audioSource2' = NULL
           /\ activeAudioIndex' = 1
           /\ currentVideoIndex' # NoClip
           /\ currentVideoIndex' \in 0 .. (numVideos - 1) ]_vars

\* The state right after the first trigger, a start: one surface bound, one
\* live unit made by start in slot 1, nothing else handled yet.
C12_Witness ==
  /\ audioReady /\ BothSurfaces
  /\ video[1].src = NoSrc /\ video[2].src # NoSrc /\ video[2].loading
  /\ Len(units) = 1 /\ units[1].by = "start" /\ units[1].live
  /\ audioSource1 = 1 /\ audioSource2 = NULL /\ activeAudioIndex = 1
  /\ gain[1].value = 1 /\ gain[2].value = 0

\* C13: when one modality's resources are missing the trigger still performs
\* the other modality's action.  With a video element absent, a start or a
\* jump still creates its playback unit and no element is touched; with the
\* audio resources absent, the inactive surface is still bound to the picked
\* clip and given its load-complete handler (so the swap follows) and the
\* audio state is returned unchanged.  In both cases the trigger returns
\* with the pick as current clip.
C13_OtherModalityStillActs ==
  [][ \A a \in AudioActions :
        /\ (~BothSurfaces /\ audioReady /\ a # "none" /\ BlinkReturns
              /\ \E d \in DrawSeqs : Blink(a, d))
             => /\ video' = video
                /\ Len(units') = Len(units) + 1
                /\ units'[Len(units')].by = a
                /\ units'[Len(units')].live
                /\ ActiveSource' = Len(units')
                /\ currentVideoIndex' \in 0 .. (numVideos - 1)
        /\ (~audioReady /\ BothSurfaces /\ BlinkReturns
              /\ \E d \in DrawSeqs : Blink(a, d))
             => /\ UNCHANGED audioVars
                /\ video'[Other(activeVideoIndex)] =
                     LoadElement(video[Other(activeVideoIndex)],
                                 Filename(currentVideoIndex'),
                                 [show |-> Other(activeVideoIndex),
                                  hide |-> activeVideoIndex])
                /\ video'[activeVideoIndex] = video[activeVideoIndex]
                /\ currentVideoIndex' \in 0 .. (numVideos - 1) ]_vars

\* A video element is missing and the audio pair has nevertheless carried
\* out a start and then a jump, whose teardown has stopped the first unit.
C13_Witness ==
  /\ ~BothSurfaces /\ audioReady
  /\ Len(units) = 2
  /\ units[1].by = "start" /\ units[2].by = "jump"
  /\ ~units[1].live /\ units[2].live
  /\ video[1].src = NoSrc /\ video[2].src = NoSrc

\* C14: for every start position passed to a crossfade or to playAudioFrom,
\* negative positions and positions beyond the buffer duration included,
\* the offset at which the new unit is started lies in [0, duration).
C14_OffsetWithinBuffer ==
  seek.started => (0 <= seek.offset /\ seek.offset < seek.duration)

\* C15: a call of updateTimeStats whose lastTimestamp is the no-prior-sample
\* sentinel returns the given timestamp as lastTimestamp and the smoothed
\* interval unchanged, whatever its value; every other call returns
\* 0.9 * avgDelta + 0.1 * (timestamp - lastTimestamp) as smoothed interval.
C15_SentinelKeepsAverage ==
  timeStats.returned =>
    IF timeStats.lastTimestamp = NoSample
      THEN /\ timeStats.result.lastTimestamp = timeStats.timestamp
           /\ timeStats.result.avgDelta = timeStats.avgDelta
      ELSE /\ timeStats.result.lastTimestamp = timeStats.timestamp
           /\ timeStats.result.avgDelta * 10 =
                 timeStats.avgDelta * 9
                   + (timeStats.timestamp - timeStats.lastTimestamp)

\* The live units attached to gain node g.
LiveOn(g) == {u \in LiveUnits : units[u].gain = g}

\* The audio actions handled so far are one start followed by jumps only.
StartThenJumps ==
  /\ units # <<>>
  /\ units[1].by = "start"
  /\ \A u \in 2 .. Len(units) : units[u].by = "jump"

\* C16 (as stated): at every moment no gain node has two live playback units
\* attached to it, here already for one start followed by jumps, whatever
\* the timing of the teardown timers.
C16_OneLiveUnitPerGain ==
  StartThenJumps => \A g \in Slots : Cardinality(LiveOn(g)) <= 1

\* C16 (amended): a unit that a crossfade has faded out (the unit that was
\* active when the crossfade creating the next unit was issued) stays live
\* exactly as long as the teardown timer holding it is pending; it is
\* stopped by that timer and not before a later crossfade, so a crossfade
\* issued meanwhile attaches its new unit to the gain node that unit is
\* still attached to.
C16_FadedOutUnitAwaitsItsTimer ==
  \A u \in DOMAIN units :
    (u < Len(units) /\ units[u + 1].by = "jump")
      => (units[u].live <=> \E i \in DOMAIN timers : timers[i].unit = u)

\* start, jump, jump with the first teardown timer still pending: units 1
\* and 3 are both live on gain node 1 and the timer holds unit 1.
C16_Witness ==
  /\ StartThenJumps
  /\ Len(units) = 3
  /\ units[1].live /\ units[3].live
  /\ units[1].gain = units[3].gain
  /\ Cardinality(LiveOn(units[3].gain)) = 2
  /\ timers # <<>> /\ Head(timers).unit = 1

Visible(s) == video[s].opacity = "1" /\ video[s].zIndex = "2"
Hidden(s) == video[s].opacity = "0" /\ video[s].zIndex = "1"

\* C17: starting with exactly one of the two surfaces visible, after any
\* sequence of triggers and load-complete callbacks, in any order, exactly
\* one surface is visible (opacity 1, stacked on top) and the other one is
\* hidden (opacity 0, stacked below).
C17_ExactlyOneSurfaceVisible ==
  BothSurfaces => \E s \in Slots : Visible(s) /\ Hidden(Other(s))

\* Both surfaces have been loaded and both load-complete callbacks have
\* fired, the older trigger's callback last: the visible surface is not the
\* one the last trigger loaded.
C17_Witness ==
  /\ BothSurfaces /\ ~LoadPending
  /\ video[1].playing /\ video[2].playing
  /\ Visible(Other(activeVideoIndex)) /\ Hidden(activeVideoIndex)

\* The surfaces with a load-complete continuation pending.
PendingContinuations == {s \in Slots : video[s].loading}

====
